---- MODULE Spec2Model ----
(***************************************************************************)
(* Point service (chargePoint / usePoint) on top of MemoryLockManager.     *)
(*                                                                         *)
(* Execution model: Node.js run-to-completion jobs.  Every action is one   *)
(* job.  Promise reactions (the continuation of `await this.locks.get(key)`*)
(* and the `finally` block after `await operation()`) are microtasks kept  *)
(* in the FIFO queue mq; timer callbacks and store I/O completions are     *)
(* macrotasks and run only when mq is empty.  The clock `now` is Date.now()*)
(* counted in ticks.                                                       *)
(***************************************************************************)
EXTENDS Integers, Sequences, FiniteSets, TLC

\* ---- bounds ------------------------------------------------------------
NTasks == 3          \* number of chargePoint/usePoint calls made in a run
NUsers == 2          \* user ids 1..NUsers
MaxNegative == 1     \* amounts of a request range over -MaxNegative..MaxAmount
MaxAmount == 1
TimeoutTicks == 1    \* timeoutMs (default 5000) expressed in clock ticks
MaxLate == 1         \* a timer callback runs at most MaxLate ticks late
IoMax == 1           \* calls and store completions happen at now <= IoMax
MaxTime == IoMax + NTasks * (TimeoutTicks + MaxLate)

Tasks == 1..NTasks
Users == 1..NUsers
Amounts == (0 - MaxNegative)..MaxAmount
NoTask == 0

\* TransactionType
TransactionTypeCHARGE == "CHARGE"
TransactionTypeUSE == "USE"

\* mutant: one key for every user
LockKeyShared(userId) == <<"user", 0>>

\* `user:${userId}`
LockKey(userId) == <<"user", userId>>
Keys == {LockKey(u) : u \in Users}

VARIABLES
  now,          \* Date.now()
  pc,           \* position of each call
  req,          \* [type, userId, amount] of each call
  outcome,      \* how the call ended
  ret,          \* the UserPoint the call returned
  maxWaitTime,  \* withLock local
  locks,        \* MemoryLockManager.locks: key -> lockPromise (named by its creator)
  timeouts,     \* MemoryLockManager.timeouts: key -> timer (named by its creator)
  armed,        \* timers scheduled by setTimeout and neither run nor cleared
  deadline,     \* time at which each call's timer is due
  resolved,     \* lockPromise of each call has been resolved
  waitq,        \* reactions registered on each lockPromise, in registration order
  mq,           \* microtask queue
  point,        \* operation local userPoint.point
  newPoint,     \* operation local chargedPoint / usedPoint
  updateTime,   \* operation local updateTime
  table,        \* UserPointTable: userId -> point
  history,      \* PointHistoryTable: sequence of records
  holdFired,    \* history variable: the call's hold timer callback has run
  started,      \* history variable: withLock has invoked the call's operation
  waited,       \* history variable: the call has awaited a lockPromise
  reply         \* what the getUserPoint / getPointHistories that has just
                \* completed returned; NoReply once another job has run

vars == <<now, pc, req, outcome, ret, maxWaitTime, locks, timeouts, armed,
          deadline, resolved, waitq, mq, point, newPoint, updateTime, table,
          history, holdFired, started, waited, reply>>

lockVars == <<locks, timeouts, armed, deadline, resolved, waitq>>
opVars == <<point, newPoint, updateTime>>
storeVars == <<table, history>>

NoReq == [type |-> "none", userId |-> 0, amount |-> 0]
NoRet == [id |-> 0, point |-> 0, updateMillis |-> 0]
NoReply == [op |-> "none", userId |-> 0, value |-> 0]

Init ==
  /\ now = 0
  /\ pc = [t \in Tasks |-> "idle"]
  /\ req = [t \in Tasks |-> NoReq]
  /\ outcome = [t \in Tasks |-> "none"]
  /\ ret = [t \in Tasks |-> NoRet]
  /\ maxWaitTime = [t \in Tasks |-> 0]
  /\ locks = [k \in Keys |-> NoTask]
  /\ timeouts = [k \in Keys |-> NoTask]
  /\ armed = [t \in Tasks |-> FALSE]
  /\ deadline = [t \in Tasks |-> 0]
  /\ resolved = [t \in Tasks |-> FALSE]
  /\ waitq = [t \in Tasks |-> <<>>]
  /\ mq = <<>>
  /\ point = [t \in Tasks |-> 0]
  /\ newPoint = [t \in Tasks |-> 0]
  /\ updateTime = [t \in Tasks |-> 0]
  /\ table = <<>>
  /\ history = <<>>
  /\ holdFired = [t \in Tasks |-> FALSE]
  /\ started = [t \in Tasks |-> FALSE]
  /\ waited = [t \in Tasks |-> FALSE]
  /\ reply = NoReply

\* ---- the two stores -----------------------------------------------------
\* UserPointTable.selectById: the stored point, 0 for a user with no record
SelectById(tb, userId) == IF userId \in DOMAIN tb THEN tb[userId] ELSE 0

\* UserPointTable.insertOrUpdate
InsertOrUpdate(tb, userId, p) ==
  [u \in (DOMAIN tb) \cup {userId} |-> IF u = userId THEN p ELSE tb[u]]

\* PointHistoryTable.insert: the record gets the next id
HistoryInsert(h, userId, amount, type, timeMillis) ==
  Append(h, [id |-> Len(h) + 1, userId |-> userId, amount |-> amount,
             type |-> type, timeMillis |-> timeMillis])

\* PointHistoryTable.selectAllByUserId: the records of the user, in an order
\* the store does not specify (every arrangement of them is a possible result)
HistoriesOf(h, userId) == {h[i] : i \in {j \in 1..Len(h) : h[j].userId = userId}}

SelectAllByUserId(h, userId) ==
  LET es == HistoriesOf(h, userId) IN
  {s \in [1..Cardinality(es) -> es] :
     \A i, j \in 1..Cardinality(es) : i # j => s[i] # s[j]}

\* ---- promises -----------------------------------------------------------
\* mutant: the reactions run in the reverse of their registration order
WakeJobsReversed(ws) == [i \in 1..Len(ws) |-> <<"wake", ws[Len(ws) + 1 - i]>>]

\* the reactions of a resolved promise are queued in registration order
WakeJobs(ws) == [i \in 1..Len(ws) |-> <<"wake", ws[i]>>]

\* resolve!() of call t's lockPromise: the first call queues the registered
\* reactions in registration order, a later call does nothing
QueueAfterResolve(t, q) == IF resolved[t] THEN q ELSE q \o WakeJobs(waitq[t])

WaitqAfterResolve(t) == IF resolved[t] THEN waitq ELSE [waitq EXCEPT ![t] = <<>>]

\* ---- MemoryLockManager.withLock ----------------------------------------
\* mutant: the throw runs the cleanup of the finally block
LockTimeoutCleanup(t, q) ==
  LET key == LockKey(req[t].userId)
      tm == timeouts[key] IN
  /\ pc' = [pc EXCEPT ![t] = "done"]
  /\ outcome' = [outcome EXCEPT ![t] = "LockTimeout"]
  /\ mq' = q
  /\ armed' = IF tm # NoTask THEN [armed EXCEPT ![tm] = FALSE] ELSE armed
  /\ timeouts' = [timeouts EXCEPT ![key] = NoTask]
  /\ locks' = [locks EXCEPT ![key] = NoTask]
  /\ UNCHANGED <<deadline, resolved, waitq, opVars, storeVars, ret, holdFired,
                 started, waited>>

\* throw new Error(`Lock timeout for key: ${key}`)
LockTimeout(t, q) ==
  /\ pc' = [pc EXCEPT ![t] = "done"]
  /\ outcome' = [outcome EXCEPT ![t] = "LockTimeout"]
  /\ mq' = q
  /\ UNCHANGED <<lockVars, opVars, storeVars, ret, holdFired, started, waited>>

\* await this.locks.get(key)
AwaitLock(t, key, q) ==
  LET h == locks[key] IN
  /\ pc' = [pc EXCEPT ![t] = "waiting"]
  /\ IF resolved[h]
     THEN /\ mq' = Append(q, <<"wake", t>>)
          /\ waitq' = waitq
     ELSE /\ mq' = q
          /\ waitq' = [waitq EXCEPT ![h] = Append(@, t)]
  /\ waited' = [waited EXCEPT ![t] = TRUE]
  /\ UNCHANGED <<locks, timeouts, armed, deadline, resolved, opVars,
                 storeVars, outcome, ret, holdFired, started>>

\* mutant: the lockPromise is not put into locks
AcquireNoSet(t, r, q) ==
  LET key == LockKey(r.userId) IN
  /\ armed' = [armed EXCEPT ![t] = TRUE]
  /\ deadline' = [deadline EXCEPT ![t] = now + TimeoutTicks]
  /\ timeouts' = [timeouts EXCEPT ![key] = t]
  /\ IF r.amount <= 0
     THEN /\ pc' = [pc EXCEPT ![t] = "settled"]
          /\ outcome' = [outcome EXCEPT ![t] = "InvalidAmount"]
          /\ mq' = Append(q, <<"finally", t>>)
     ELSE /\ pc' = [pc EXCEPT ![t] = "selecting"]
          /\ outcome' = outcome
          /\ mq' = q
  /\ started' = [started EXCEPT ![t] = TRUE]
  /\ UNCHANGED <<locks, resolved, waitq, opVars, storeVars, ret, holdFired,
                 waited>>

\* mutant: the amount check is amount < 0
AcquireZeroAccepted(t, r, q) ==
  LET key == LockKey(r.userId) IN
  /\ locks' = [locks EXCEPT ![key] = t]
  /\ armed' = [armed EXCEPT ![t] = TRUE]
  /\ deadline' = [deadline EXCEPT ![t] = now + TimeoutTicks]
  /\ timeouts' = [timeouts EXCEPT ![key] = t]
  /\ IF r.amount < 0
     THEN /\ pc' = [pc EXCEPT ![t] = "settled"]
          /\ outcome' = [outcome EXCEPT ![t] = "InvalidAmount"]
          /\ mq' = Append(q, <<"finally", t>>)
     ELSE /\ pc' = [pc EXCEPT ![t] = "selecting"]
          /\ outcome' = outcome
          /\ mq' = q
  /\ started' = [started EXCEPT ![t] = TRUE]
  /\ UNCHANGED <<resolved, waitq, opVars, storeVars, ret, holdFired, waited>>

\* locks.set, setTimeout, timeouts.set, then operation() up to its first
\* await: the amount check of chargePoint / usePoint
Acquire(t, r, q) ==
  LET key == LockKey(r.userId) IN
  /\ locks' = [locks EXCEPT ![key] = t]
  /\ armed' = [armed EXCEPT ![t] = TRUE]
  /\ deadline' = [deadline EXCEPT ![t] = now + TimeoutTicks]
  /\ timeouts' = [timeouts EXCEPT ![key] = t]
  /\ IF r.amount <= 0
     THEN /\ pc' = [pc EXCEPT ![t] = "settled"]
          /\ outcome' = [outcome EXCEPT ![t] = "InvalidAmount"]
          /\ mq' = Append(q, <<"finally", t>>)
     ELSE /\ pc' = [pc EXCEPT ![t] = "selecting"]
          /\ outcome' = outcome
          /\ mq' = q
  /\ started' = [started EXCEPT ![t] = TRUE]
  /\ UNCHANGED <<resolved, waitq, opVars, storeVars, ret, holdFired, waited>>

\* mutant: the loop does not wait for a held key
WaitLoopNoWait(t, r, maxWait, q) == Acquire(t, r, q)

\* mutant: the loop has no wait-timeout check
WaitLoopNoTimeout(t, r, maxWait, q) ==
  LET key == LockKey(r.userId) IN
  IF locks[key] # NoTask
  THEN AwaitLock(t, key, q)
  ELSE Acquire(t, r, q)

\* one evaluation of the while loop, and what follows it
WaitLoop(t, r, maxWait, q) ==
  LET key == LockKey(r.userId) IN
  IF locks[key] # NoTask
  THEN IF now > maxWait
       THEN LockTimeout(t, q)
       ELSE AwaitLock(t, key, q)
  ELSE Acquire(t, r, q)

\* mutant: the finally block without clearTimeout
FinallyNoClear(t, q) ==
  LET key == LockKey(req[t].userId) IN
  /\ armed' = armed
  /\ timeouts' = [timeouts EXCEPT ![key] = NoTask]
  /\ locks' = [locks EXCEPT ![key] = NoTask]
  /\ resolved' = [resolved EXCEPT ![t] = TRUE]
  /\ mq' = QueueAfterResolve(t, q)
  /\ waitq' = WaitqAfterResolve(t)
  /\ UNCHANGED <<deadline, holdFired, started, waited>>

\* mutant: the finally block without this.locks.delete(key)
FinallyNoDelete(t, q) ==
  LET key == LockKey(req[t].userId)
      tm == timeouts[key] IN
  /\ armed' = IF tm # NoTask THEN [armed EXCEPT ![tm] = FALSE] ELSE armed
  /\ timeouts' = [timeouts EXCEPT ![key] = NoTask]
  /\ locks' = locks
  /\ resolved' = [resolved EXCEPT ![t] = TRUE]
  /\ mq' = QueueAfterResolve(t, q)
  /\ waitq' = WaitqAfterResolve(t)
  /\ UNCHANGED <<deadline, holdFired, started, waited>>

\* the finally block; the caller sets pc, outcome, ret and the stores
Finally(t, q) ==
  LET key == LockKey(req[t].userId)
      tm == timeouts[key] IN
  /\ armed' = IF tm # NoTask THEN [armed EXCEPT ![tm] = FALSE] ELSE armed
  /\ timeouts' = [timeouts EXCEPT ![key] = NoTask]
  /\ locks' = [locks EXCEPT ![key] = NoTask]
  /\ resolved' = [resolved EXCEPT ![t] = TRUE]
  /\ mq' = QueueAfterResolve(t, q)
  /\ waitq' = WaitqAfterResolve(t)
  /\ UNCHANGED <<deadline, holdFired, started, waited>>

\* no reaction of a lockPromise is pending: client code can run
NoWakePending == \A i \in 1..Len(mq) : mq[i][1] # "wake"

\* mutant: the amount is checked before withLock is entered
CallChecksFirst(t, r) ==
  /\ pc[t] = "idle"
  /\ \A s \in Tasks : s < t => pc[s] # "idle"
  /\ \A u \in Users : u < r.userId => \E s \in Tasks : req[s].userId = u
  /\ NoWakePending
  /\ now <= IoMax
  /\ req' = [req EXCEPT ![t] = r]
  /\ maxWaitTime' = [maxWaitTime EXCEPT ![t] = now + TimeoutTicks]
  /\ IF r.amount <= 0
     THEN /\ pc' = [pc EXCEPT ![t] = "done"]
          /\ outcome' = [outcome EXCEPT ![t] = "InvalidAmount"]
          /\ UNCHANGED <<lockVars, mq, opVars, storeVars, ret, holdFired,
                         started, waited>>
     ELSE WaitLoop(t, r, now + TimeoutTicks, mq)
  /\ UNCHANGED now
  /\ reply' = NoReply

\* a call enters withLock: calls are numbered in the order they are made,
\* and user ids in the order of their first use.  Client code runs when no
\* reaction of a lockPromise is queued; it may follow a call whose operation
\* threw at once and whose finally block is still queued.
Call(t, r) ==
  /\ pc[t] = "idle"
  /\ \A s \in Tasks : s < t => pc[s] # "idle"
  /\ \A u \in Users : u < r.userId => \E s \in Tasks : req[s].userId = u
  /\ NoWakePending
  /\ now <= IoMax
  /\ req' = [req EXCEPT ![t] = r]
  /\ maxWaitTime' = [maxWaitTime EXCEPT ![t] = now + TimeoutTicks]
  /\ WaitLoop(t, r, now + TimeoutTicks, mq)
  /\ UNCHANGED now
  /\ reply' = NoReply

ChargePoint(t, userId, amount) ==
  Call(t, [type |-> TransactionTypeCHARGE, userId |-> userId, amount |-> amount])

UsePoint(t, userId, amount) ==
  Call(t, [type |-> TransactionTypeUSE, userId |-> userId, amount |-> amount])

\* the head of the microtask queue runs
RunMicrotask ==
  /\ mq # <<>>
  /\ LET t == Head(mq)[2] IN
     IF Head(mq)[1] = "wake"
     THEN WaitLoop(t, req[t], maxWaitTime[t], Tail(mq))
     ELSE /\ Finally(t, Tail(mq))
          /\ pc' = [pc EXCEPT ![t] = "done"]
          /\ UNCHANGED <<outcome, ret, opVars, storeVars>>
  /\ UNCHANGED <<now, req, maxWaitTime>>
  /\ reply' = NoReply

\* the callback given to setTimeout
HoldTimeout(t) ==
  /\ armed[t]
  /\ now >= deadline[t]
  /\ mq = <<>>
  /\ armed' = [armed EXCEPT ![t] = FALSE]
  /\ locks' = [locks EXCEPT ![LockKey(req[t].userId)] = NoTask]
  /\ resolved' = [resolved EXCEPT ![t] = TRUE]
  /\ mq' = QueueAfterResolve(t, mq)
  /\ waitq' = WaitqAfterResolve(t)
  /\ holdFired' = [holdFired EXCEPT ![t] = TRUE]
  /\ UNCHANGED <<started, waited>>
  /\ UNCHANGED <<now, pc, req, outcome, ret, maxWaitTime, timeouts, deadline,
                 opVars, storeVars>>
  /\ reply' = NoReply

\* ---- PointService.chargePoint, the operation ---------------------------
\* Each store call completes in a job of its own; the code up to the next
\* await runs in the same job (nothing else is queued when it starts).
\* selectById has returned
\* mutant: the amount replaces the point read
ChargeSelectedNoRead(t) ==
  /\ pc[t] = "selecting" /\ req[t].type = TransactionTypeCHARGE
  /\ mq = <<>> /\ now <= IoMax
  /\ point' = [point EXCEPT ![t] = SelectById(table, req[t].userId)]
  /\ newPoint' = [newPoint EXCEPT ![t] = req[t].amount]
  /\ updateTime' = [updateTime EXCEPT ![t] = now]
  /\ pc' = [pc EXCEPT ![t] = "updating"]
  /\ UNCHANGED <<now, req, outcome, ret, maxWaitTime, lockVars, mq, storeVars,
                 holdFired, started, waited>>
  /\ reply' = NoReply

\* selectById has returned: chargedPoint and updateTime are computed and
\* insertOrUpdate is called
ChargeSelected(t) ==
  /\ pc[t] = "selecting" /\ req[t].type = TransactionTypeCHARGE
  /\ mq = <<>> /\ now <= IoMax
  /\ point' = [point EXCEPT ![t] = SelectById(table, req[t].userId)]
  /\ newPoint' = [newPoint EXCEPT ![t] = point'[t] + req[t].amount]
  /\ updateTime' = [updateTime EXCEPT ![t] = now]
  /\ pc' = [pc EXCEPT ![t] = "updating"]
  /\ UNCHANGED <<now, req, outcome, ret, maxWaitTime, lockVars, mq, storeVars,
                 holdFired, started, waited>>
  /\ reply' = NoReply

\* ---- PointService.usePoint, the operation ------------------------------
\* mutant: no balance check
UseSelectedNoCheck(t) ==
  /\ pc[t] = "selecting" /\ req[t].type = TransactionTypeUSE
  /\ mq = <<>> /\ now <= IoMax
  /\ point' = [point EXCEPT ![t] = SelectById(table, req[t].userId)]
  /\ newPoint' = [newPoint EXCEPT ![t] = point'[t] - req[t].amount]
  /\ updateTime' = [updateTime EXCEPT ![t] = now]
  /\ pc' = [pc EXCEPT ![t] = "updating"]
  /\ UNCHANGED <<now, req, outcome, ret, maxWaitTime, lockVars, mq, storeVars,
                 holdFired, started, waited>>
  /\ reply' = NoReply

\* mutant: a request for the whole balance is rejected
UseSelectedStrict(t) ==
  /\ pc[t] = "selecting" /\ req[t].type = TransactionTypeUSE
  /\ mq = <<>> /\ now <= IoMax
  /\ point' = [point EXCEPT ![t] = SelectById(table, req[t].userId)]
  /\ IF point'[t] <= req[t].amount
     THEN /\ outcome' = [outcome EXCEPT ![t] = "Insufficient"]
          /\ pc' = [pc EXCEPT ![t] = "done"]
          /\ Finally(t, mq)
          /\ UNCHANGED <<newPoint, updateTime>>
     ELSE /\ newPoint' = [newPoint EXCEPT ![t] = point'[t] - req[t].amount]
          /\ updateTime' = [updateTime EXCEPT ![t] = now]
          /\ pc' = [pc EXCEPT ![t] = "updating"]
          /\ UNCHANGED <<outcome, lockVars, mq, holdFired, started, waited>>
  /\ UNCHANGED <<now, req, ret, maxWaitTime, storeVars>>
  /\ reply' = NoReply

\* mutant: the rejected request is recorded in the history before the throw
UseSelectedLogsFailure(t) ==
  /\ pc[t] = "selecting" /\ req[t].type = TransactionTypeUSE
  /\ mq = <<>> /\ now <= IoMax
  /\ point' = [point EXCEPT ![t] = SelectById(table, req[t].userId)]
  /\ IF point'[t] < req[t].amount
     THEN /\ outcome' = [outcome EXCEPT ![t] = "Insufficient"]
          /\ pc' = [pc EXCEPT ![t] = "done"]
          /\ Finally(t, mq)
          /\ history' = HistoryInsert(history, req[t].userId, req[t].amount,
                                      req[t].type, now)
          /\ UNCHANGED <<newPoint, updateTime>>
     ELSE /\ newPoint' = [newPoint EXCEPT ![t] = point'[t] - req[t].amount]
          /\ updateTime' = [updateTime EXCEPT ![t] = now]
          /\ pc' = [pc EXCEPT ![t] = "updating"]
          /\ UNCHANGED <<outcome, lockVars, mq, holdFired, started, waited,
                         history>>
  /\ UNCHANGED <<now, req, ret, maxWaitTime, table>>
  /\ reply' = NoReply

\* selectById has returned: the balance check, then usedPoint and updateTime
\* are computed and insertOrUpdate is called; the throw runs the finally block
UseSelected(t) ==
  /\ pc[t] = "selecting" /\ req[t].type = TransactionTypeUSE
  /\ mq = <<>> /\ now <= IoMax
  /\ point' = [point EXCEPT ![t] = SelectById(table, req[t].userId)]
  /\ IF point'[t] < req[t].amount
     THEN /\ outcome' = [outcome EXCEPT ![t] = "Insufficient"]
          /\ pc' = [pc EXCEPT ![t] = "done"]
          /\ Finally(t, mq)
          /\ UNCHANGED <<newPoint, updateTime>>
     ELSE /\ newPoint' = [newPoint EXCEPT ![t] = point'[t] - req[t].amount]
          /\ updateTime' = [updateTime EXCEPT ![t] = now]
          /\ pc' = [pc EXCEPT ![t] = "updating"]
          /\ UNCHANGED <<outcome, lockVars, mq, holdFired, started, waited>>
  /\ UNCHANGED <<now, req, ret, maxWaitTime, storeVars>>
  /\ reply' = NoReply

\* ---- both operations: the two writes -----------------------------------
\* mutant: the point is written to the record of user 1
UpdatedFirstUser(t) ==
  /\ pc[t] = "updating"
  /\ mq = <<>> /\ now <= IoMax
  /\ table' = InsertOrUpdate(table, 1, newPoint[t])
  /\ pc' = [pc EXCEPT ![t] = "inserting"]
  /\ UNCHANGED <<now, req, outcome, ret, maxWaitTime, lockVars, mq, opVars,
                 history, holdFired, started, waited>>
  /\ reply' = NoReply

\* mutant: the history entry is appended where the point should be written
UpdatedHistoryFirst(t) ==
  /\ pc[t] = "updating"
  /\ mq = <<>> /\ now <= IoMax
  /\ history' = HistoryInsert(history, req[t].userId, req[t].amount,
                              req[t].type, updateTime[t])
  /\ pc' = [pc EXCEPT ![t] = "inserting"]
  /\ UNCHANGED <<now, req, outcome, ret, maxWaitTime, lockVars, mq, opVars,
                 table, holdFired, started, waited>>
  /\ reply' = NoReply

\* insertOrUpdate has written the point; pointHistoryTable.insert is called
Updated(t) ==
  /\ pc[t] = "updating"
  /\ mq = <<>> /\ now <= IoMax
  /\ table' = InsertOrUpdate(table, req[t].userId, newPoint[t])
  /\ pc' = [pc EXCEPT ![t] = "inserting"]
  /\ UNCHANGED <<now, req, outcome, ret, maxWaitTime, lockVars, mq, opVars,
                 history, holdFired, started, waited>>
  /\ reply' = NoReply

\* mutant: the history record is stamped with a fresh Date.now()
InsertedFreshTime(t) ==
  /\ pc[t] = "inserting"
  /\ mq = <<>> /\ now <= IoMax
  /\ history' = HistoryInsert(history, req[t].userId, req[t].amount,
                              req[t].type, now)
  /\ outcome' = [outcome EXCEPT ![t] = "ok"]
  /\ ret' = [ret EXCEPT ![t] = [id |-> req[t].userId, point |-> newPoint[t],
                                updateMillis |-> updateTime[t]]]
  /\ pc' = [pc EXCEPT ![t] = "done"]
  /\ Finally(t, mq)
  /\ UNCHANGED <<now, req, maxWaitTime, opVars, table>>
  /\ reply' = NoReply

\* insert has appended the record; the operation returns the UserPoint and
\* the finally block of withLock runs
Inserted(t) ==
  /\ pc[t] = "inserting"
  /\ mq = <<>> /\ now <= IoMax
  /\ history' = HistoryInsert(history, req[t].userId, req[t].amount,
                              req[t].type, updateTime[t])
  /\ outcome' = [outcome EXCEPT ![t] = "ok"]
  /\ ret' = [ret EXCEPT ![t] = [id |-> req[t].userId, point |-> newPoint[t],
                                updateMillis |-> updateTime[t]]]
  /\ pc' = [pc EXCEPT ![t] = "done"]
  /\ Finally(t, mq)
  /\ UNCHANGED <<now, req, maxWaitTime, opVars, table>>
  /\ reply' = NoReply

\* ---- PointService.getUserPoint -----------------------------------------
\* mutant: the read waits until the key of the user has no entry
GetUserPointLocked(userId) ==
  /\ mq = <<>> /\ now <= IoMax
  /\ locks[LockKey(userId)] = NoTask
  /\ reply' = [op |-> "getUserPoint", userId |-> userId,
               value |-> SelectById(table, userId)]
  /\ UNCHANGED <<now, pc, req, outcome, ret, maxWaitTime, lockVars, mq, opVars,
                 storeVars, holdFired, started, waited>>

\* selectById has returned and its result is returned to the caller
GetUserPoint(userId) ==
  /\ mq = <<>> /\ now <= IoMax
  /\ reply' = [op |-> "getUserPoint", userId |-> userId,
               value |-> SelectById(table, userId)]
  /\ UNCHANGED <<now, pc, req, outcome, ret, maxWaitTime, lockVars, mq, opVars,
                 storeVars, holdFired, started, waited>>

\* ---- PointService.getPointHistories ------------------------------------
\* mutant: oldest first
CompareAscending(a, b) == a.timeMillis - b.timeMillis

\* (a, b) => b.timeMillis - a.timeMillis
Compare(a, b) == b.timeMillis - a.timeMillis

\* Array.prototype.sort is stable: an element moves in front of exactly the
\* elements the comparator puts after it
RECURSIVE SortInsert(_, _)
SortInsert(sorted, e) ==
  IF sorted = <<>> THEN <<e>>
  ELSE IF Compare(sorted[Len(sorted)], e) > 0
       THEN Append(SortInsert(SubSeq(sorted, 1, Len(sorted) - 1), e),
                   sorted[Len(sorted)])
       ELSE Append(sorted, e)

RECURSIVE Sort(_)
Sort(s) ==
  IF s = <<>> THEN <<>>
  ELSE SortInsert(Sort(SubSeq(s, 1, Len(s) - 1)), s[Len(s)])

\* selectAllByUserId has returned; the sorted array is returned to the caller
GetPointHistories(userId) ==
  /\ mq = <<>> /\ now <= IoMax
  /\ \E histories \in SelectAllByUserId(history, userId) :
       reply' = [op |-> "getPointHistories", userId |-> userId,
                 value |-> Sort(histories)]
  /\ UNCHANGED <<now, pc, req, outcome, ret, maxWaitTime, lockVars, mq, opVars,
                 storeVars, holdFired, started, waited>>

\* ---- the clock ---------------------------------------------------------
\* Time passes between jobs.  A due timer runs at most MaxLate ticks late.
\* Once no call or store completion can happen any more (now >= IoMax) the
\* clock is only followed while a timer is armed.
Tick ==
  /\ mq = <<>>
  /\ now < MaxTime
  /\ now < IoMax \/ \E t \in Tasks : armed[t]
  /\ \A t \in Tasks : armed[t] => now < deadline[t] + MaxLate
  /\ now' = now + 1
  /\ UNCHANGED <<pc, req, outcome, ret, maxWaitTime, lockVars, mq, opVars,
                 storeVars, holdFired, started, waited>>
  /\ reply' = NoReply

Next ==
  \/ \E t \in Tasks, u \in Users, a \in Amounts : ChargePoint(t, u, a)
  \/ \E t \in Tasks, u \in Users, a \in Amounts : UsePoint(t, u, a)
  \/ RunMicrotask
  \/ \E t \in Tasks : HoldTimeout(t)
  \/ \E t \in Tasks : ChargeSelected(t)
  \/ \E t \in Tasks : UseSelected(t)
  \/ \E t \in Tasks : Updated(t)
  \/ \E t \in Tasks : Inserted(t)
  \/ Tick

Spec == Init /\ [][Next]_vars

\* the specification with the scheduling the event loop guarantees: queued
\* microtasks run, due timers run, the clock advances; a store call may
\* never complete
FairSpec ==
  /\ Spec
  /\ WF_vars(RunMicrotask)
  /\ WF_vars(Tick)
  /\ \A t \in Tasks : WF_vars(HoldTimeout(t))

\* the service with its two queries
NextQuery ==
  \/ Next
  \/ \E u \in Users : GetUserPoint(u)
  \/ \E u \in Users : GetPointHistories(u)

QuerySpec == Init /\ [][NextQuery]_vars

\* ---- vocabulary of the properties --------------------------------------
KeyOf(t) == LockKey(req[t].userId)

\* the operation of call t has started and has not returned or thrown
InOperation(t) == pc[t] \in {"selecting", "updating", "inserting"}

NoHoldTimeout == \A t \in Tasks : ~holdFired[t]

Quiescent == \A t \in Tasks : pc[t] \in {"idle", "done"}

Succeeded(t) == pc[t] = "done" /\ outcome[t] = "ok"

\* what a successful call of user u adds to the balance
Delta(t, u) ==
  IF Succeeded(t) /\ req[t].userId = u
  THEN IF req[t].type = TransactionTypeCHARGE THEN req[t].amount
       ELSE 0 - req[t].amount
  ELSE 0

RECURSIVE NetUpTo(_, _)
NetUpTo(u, n) == IF n = 0 THEN 0 ELSE NetUpTo(u, n - 1) + Delta(n, u)

\* sum of the charged amounts minus sum of the used amounts of user u
Net(u) == NetUpTo(u, NTasks)

HistoryCount(u) == Cardinality({i \in 1..Len(history) : history[i].userId = u})

OkCount(u) == Cardinality({t \in Tasks : Succeeded(t) /\ req[t].userId = u})

IsWaiterOf(t, h) == \E i \in 1..Len(waitq[h]) : waitq[h][i] = t

\* ---- C1 ------------------------------------------------------------------
\* C1: when every call made has succeeded and no hold-timeout has fired, the
\* stored balance of every user is the initial balance (0) plus the sum of
\* the charged amounts minus the sum of the used amounts, whatever the
\* interleaving of the calls was.
NoLostUpdates ==
  ( /\ \A t \in Tasks : pc[t] = "idle" \/ Succeeded(t)
    /\ NoHoldTimeout )
  => \A u \in Users : SelectById(table, u) = Net(u)

\* three calls of one user, two of which had to wait, have all succeeded
NoLostUpdatesWitness ==
  /\ \A t \in Tasks : Succeeded(t) /\ req[t].userId = 1
  /\ waited[2] /\ waited[3]
  /\ NoHoldTimeout

\* ---- C2 ------------------------------------------------------------------
\* C2: as long as no hold-timeout has fired, two operations of the same key
\* are never in execution together, and the operation in execution is the
\* one whose call owns the key's entry.
MutualExclusion ==
  NoHoldTimeout =>
    /\ \A t1, t2 \in Tasks :
         (t1 # t2 /\ InOperation(t1) /\ InOperation(t2)) => KeyOf(t1) # KeyOf(t2)
    /\ \A t \in Tasks : InOperation(t) => locks[KeyOf(t)] = t

\* an operation is running while another call of the same key waits
MutualExclusionWitness ==
  /\ NoHoldTimeout
  /\ \E t1, t2 \in Tasks :
       /\ InOperation(t1) /\ pc[t2] = "waiting"
       /\ KeyOf(t1) = KeyOf(t2)
       /\ point[t1] > 0

\* ---- C3 ------------------------------------------------------------------
\* C3: a call waits only on the lockPromise of a call of the same user, a
\* lock-timeout needs another call of the same user to have held the key,
\* a call made while no call of its user is in progress starts its
\* operation at once whatever other users' keys are held, and at
\* quiescence without hold-timeout each user's balance and history count
\* are the ones computed from that user's own calls.
IndependenceState ==
  /\ \A t, h \in Tasks : IsWaiterOf(t, h) => req[h].userId = req[t].userId
  /\ \A t \in Tasks : outcome[t] = "LockTimeout" =>
       \E h \in Tasks : h # t /\ req[h].userId = req[t].userId /\ started[h]
  /\ (Quiescent /\ NoHoldTimeout) =>
       \A u \in Users : /\ SelectById(table, u) = Net(u)
                        /\ HistoryCount(u) = OkCount(u)

IndependenceStep ==
  \A t \in Tasks :
    ( /\ pc[t] = "idle" /\ pc'[t] # "idle"
      /\ \A h \in Tasks : h # t =>
           (pc[h] \in {"idle", "done"} \/ req[h].userId # req'[t].userId) )
    => started'[t]

Independence == []IndependenceState /\ [][IndependenceStep]_vars

\* operations of two different users are in execution together
IndependenceWitness ==
  \E t1, t2 \in Tasks :
    /\ InOperation(t1) /\ InOperation(t2)
    /\ req[t1].userId # req[t2].userId

\* ---- C4 ------------------------------------------------------------------
\* C4: when the selectById of a usePoint returns a point smaller than the
\* amount, the call fails with the insufficient-balance error in that step,
\* and the step changes neither the stored balances nor the history; a call
\* that failed so read a point smaller than its amount.
InsufficientStep ==
  \A t \in Tasks :
    ( /\ pc[t] = "selecting" /\ pc'[t] # "selecting"
      /\ req[t].type = TransactionTypeUSE
      /\ req[t].amount > SelectById(table, req[t].userId) )
    => /\ outcome'[t] = "Insufficient"
       /\ pc'[t] = "done"
       /\ table' = table
       /\ history' = history

InsufficientState ==
  \A t \in Tasks : outcome[t] = "Insufficient" =>
    /\ req[t].type = TransactionTypeUSE
    /\ req[t].amount > 0
    /\ point[t] < req[t].amount
    /\ pc[t] = "done"

InsufficientBalanceRejected == []InsufficientState /\ [][InsufficientStep]_vars

\* a usePoint has failed with the insufficient-balance error
InsufficientBalanceWitness ==
  \E t \in Tasks : outcome[t] = "Insufficient" /\ started[t]

\* ---- C5 ------------------------------------------------------------------
\* C5 as stated: every finished call with amount <= 0 has failed with the
\* invalid-amount error.
InvalidAmountAlwaysReported ==
  \A t \in Tasks :
    (pc[t] = "done" /\ req[t].amount <= 0) => outcome[t] = "InvalidAmount"

\* C5 amended: a call with amount <= 0 never reaches a store call and none
\* of its steps changes the stored balances or the history; once its
\* operation has been invoked it fails with the invalid-amount error, and
\* if it never gets the key it fails with the lock-timeout error.
InvalidAmountState ==
  \A t \in Tasks :
    (pc[t] # "idle" /\ req[t].amount <= 0) =>
      /\ ~InOperation(t)
      /\ started[t] => outcome[t] = "InvalidAmount"
      /\ ~started[t] => outcome[t] \in {"none", "LockTimeout"}
      /\ pc[t] = "done" => outcome[t] \in {"InvalidAmount", "LockTimeout"}

InvalidAmountStep ==
  \A t \in Tasks :
    (req'[t].amount <= 0 /\ pc'[t] # pc[t]) =>
      (table' = table /\ history' = history)

InvalidAmountRejected == []InvalidAmountState /\ [][InvalidAmountStep]_vars

\* a call with amount <= 0 has failed with the invalid-amount error after
\* waiting for the key of a user whose balance is not 0
InvalidAmountWitness ==
  \E t \in Tasks :
    /\ outcome[t] = "InvalidAmount" /\ waited[t]
    /\ SelectById(table, req[t].userId) > 0

\* ---- C6 ------------------------------------------------------------------
\* C6 as stated: a call that had to wait and whose wait exceeded its bound
\* never runs its operation (its operation started no later than
\* maxWaitTime).
WaitBounded ==
  \A t \in Tasks :
    (waited[t] /\ started[t]) => deadline[t] - TimeoutTicks <= maxWaitTime[t]

\* the call whose loop condition is evaluated by the next microtask
Checking(t) == mq # <<>> /\ Head(mq) = <<"wake", t>>

\* C6 amended: a call that evaluates the loop condition, finds the key held
\* and the clock beyond maxWaitTime fails with the lock-timeout error in
\* that step and never runs its operation; a call that finds the key free
\* starts its operation however long it has waited.
WaitTimeoutStep ==
  \A t \in Tasks :
    Checking(t) =>
      IF locks[KeyOf(t)] # NoTask
      THEN (now > maxWaitTime[t]) =>
             (outcome'[t] = "LockTimeout" /\ pc'[t] = "done" /\ ~started'[t])
      ELSE started'[t]

WaitTimeoutState ==
  \A t \in Tasks : outcome[t] = "LockTimeout" => (pc[t] = "done" /\ ~started[t])

WaitTimeout == []WaitTimeoutState /\ [][WaitTimeoutStep]_vars

\* a call has failed with the lock-timeout error
WaitTimeoutWitness ==
  \E t \in Tasks : outcome[t] = "LockTimeout" /\ waited[t] /\ now > maxWaitTime[t]

\* ---- C7 ------------------------------------------------------------------
\* C7: the step in which a call fails with the lock-timeout error leaves
\* the lock table, the timers, the lockPromises, the stored balances and
\* the history as they were, the key is still held after it, and the call
\* has never invoked its operation.
LockTimeoutStep ==
  \A t \in Tasks :
    (outcome[t] # "LockTimeout" /\ outcome'[t] = "LockTimeout") =>
      /\ UNCHANGED <<locks, timeouts, armed, deadline, resolved, waitq,
                     table, history>>
      /\ locks'[KeyOf(t)] \notin {NoTask, t}
      /\ ~started[t]

LockTimeoutState ==
  \A t \in Tasks : outcome[t] = "LockTimeout" =>
    (~started[t] /\ point[t] = 0 /\ newPoint[t] = 0 /\ ret[t] = NoRet)

LockTimeoutNoEffect == []LockTimeoutState /\ [][LockTimeoutStep]_vars

\* a call has failed with the lock-timeout error while the holder of its
\* key is still in its operation with its timer armed
LockTimeoutNoEffectWitness ==
  \E t, h \in Tasks :
    /\ outcome[t] = "LockTimeout"
    /\ locks[KeyOf(t)] = h /\ InOperation(h) /\ armed[h]

\* ---- C8 ------------------------------------------------------------------
\* C8: once the hold-timeout of an operation that is still running has
\* elapsed, its timer has run (the key was force-released) or is still
\* armed and about to run.
HoldTimeoutFires ==
  \A t \in Tasks :
    (InOperation(t) /\ now >= deadline[t]) => (holdFired[t] \/ armed[t])

\* ---- C9 ------------------------------------------------------------------
\* C9: the release of a call whose hold-timeout has already fired changes
\* neither the lock table nor the armed timers.
LateReleaseIsNoOp ==
  [][ \A t \in Tasks :
        (holdFired[t] /\ pc[t] # "done" /\ pc'[t] = "done") =>
          (locks' = locks /\ armed' = armed) ]_vars

\* ---- C10 -----------------------------------------------------------------
\* C10: under fair scheduling every waiting call eventually starts its
\* operation or fails with the lock-timeout error.
WaitersProgress ==
  \A t \in Tasks : (pc[t] = "waiting") ~> (started[t] \/ outcome[t] = "LockTimeout")

\* ---- C11 -----------------------------------------------------------------
\* C11: in the step in which the operation of a call completes (the caller
\* gets the result or the error), the entry of the key is removed and no
\* timer is left registered for the key; the error the caller gets is the
\* one the operation raised; a call made while the key has no entry starts
\* its operation in the same step, without having awaited.  Once a call has
\* completed, its own timer is disarmed and the entry of its key is not its own.
Completes(t) == started[t] /\ pc[t] # "done" /\ pc'[t] = "done"

ReleaseStep ==
  \A t \in Tasks :
    /\ Completes(t) =>
         /\ locks'[KeyOf(t)] = NoTask
         /\ timeouts'[KeyOf(t)] = NoTask
         /\ ~armed'[t]
         /\ outcome'[t] \in {"ok", "InvalidAmount", "Insufficient"}
         /\ pc[t] = "settled" => outcome'[t] = outcome[t]
    /\ (pc[t] = "idle" /\ pc'[t] # "idle"
          /\ locks[LockKey(req'[t].userId)] = NoTask) =>
         (started'[t] /\ ~waited'[t] /\ outcome'[t] # "LockTimeout")

ReleaseState ==
  \A t \in Tasks :
    (pc[t] = "done" /\ started[t]) =>
      (~armed[t] /\ locks[KeyOf(t)] # t /\ timeouts[KeyOf(t)] # t)

ReleaseOnCompletion == []ReleaseState /\ [][ReleaseStep]_vars

\* an operation has raised an error, and a later call for the same key has
\* started its operation without having awaited
ReleaseOnCompletionWitness ==
  \E t, s \in Tasks :
    /\ pc[t] = "done" /\ outcome[t] = "Insufficient"
    /\ t < s /\ KeyOf(s) = KeyOf(t) /\ started[s] /\ ~waited[s]

\* ---- C12 -----------------------------------------------------------------
\* C12: at every moment the history of a user holds, for every type and
\* amount, exactly as many entries as calls of that user with that type and
\* amount have succeeded; calls that failed (invalid amount, insufficient
\* balance, lock timeout) or have not finished account for no entry.
EntriesLike(u, ty, a) ==
  Cardinality({i \in 1..Len(history) :
    history[i].userId = u /\ history[i].type = ty /\ history[i].amount = a})

SucceededLike(u, ty, a) ==
  Cardinality({t \in Tasks :
    outcome[t] = "ok" /\ req[t].userId = u /\ req[t].type = ty /\ req[t].amount = a})

HistoryCountsSuccesses ==
  /\ \A u \in Users : HistoryCount(u) = OkCount(u)
  /\ \A u \in Users, a \in Amounts :
       \A ty \in {TransactionTypeCHARGE, TransactionTypeUSE} :
         EntriesLike(u, ty, a) = SucceededLike(u, ty, a)
  /\ \A i \in 1..Len(history) : history[i].userId \in Users

\* every call has finished; one user has made a call that succeeded, one
\* rejected for its amount and one rejected for insufficient balance
HistoryCountsSuccessesWitness ==
  /\ Quiescent
  /\ \E u \in Users : \E t1, t2, t3 \in Tasks :
       /\ req[t1].userId = u /\ req[t2].userId = u /\ req[t3].userId = u
       /\ outcome[t1] = "ok" /\ outcome[t2] = "InvalidAmount"
       /\ outcome[t3] = "Insufficient"
       /\ HistoryCount(u) = 1

\* ---- C13 -----------------------------------------------------------------
\* C13: what getPointHistories(userId) has just returned holds every entry
\* the history store holds for that user exactly once and nothing else, with
\* the timeMillis of each entry at least that of the next one, in whatever
\* order the store handed the entries over; for a user with no entry it is
\* the empty sequence.
HistoriesReply == reply.op = "getPointHistories"

IsDescending(s) ==
  \A i \in 1..(Len(s) - 1) : s[i].timeMillis >= s[i + 1].timeMillis

IsArrangementOf(s, es) ==
  /\ Len(s) = Cardinality(es)
  /\ {s[i] : i \in 1..Len(s)} = es

HistoriesSorted ==
  HistoriesReply =>
    /\ IsArrangementOf(reply.value, HistoriesOf(history, reply.userId))
    /\ IsDescending(reply.value)
    /\ HistoryCount(reply.userId) = 0 => reply.value = <<>>

\* the reply holds three entries, a later one in front of an earlier one,
\* and the entry inserted first is not the last of the reply
HistoriesSortedWitness ==
  /\ HistoriesReply
  /\ Len(reply.value) = 3
  /\ reply.value[1].timeMillis > reply.value[3].timeMillis
  /\ reply.value[3].id > reply.value[2].id

\* the reply for a user with no entry
HistoriesEmptyWitness ==
  HistoriesReply /\ reply.value = <<>> /\ Len(history) > 0

\* ---- C14 -----------------------------------------------------------------
\* C14: in what getPointHistories has just returned, of two entries with
\* the same timeMillis the one inserted later (the one with the larger id)
\* comes first.
TiesNewestFirst ==
  HistoriesReply =>
    \A i, j \in 1..Len(reply.value) :
      (i < j /\ reply.value[i].timeMillis = reply.value[j].timeMillis) =>
        reply.value[i].id > reply.value[j].id

\* ---- C15 -----------------------------------------------------------------
\* the step in which a call of the given type returns its UserPoint
Returns(t, ty) == req[t].type = ty /\ outcome[t] # "ok" /\ outcome'[t] = "ok"

\* what a getUserPoint that has just completed returned is the stored point
UserPointReplyFresh ==
  reply.op = "getUserPoint" => reply.value = SelectById(table, reply.userId)

\* C15 as stated: a chargePoint that returns, returns id = userId and
\* point = the point it read + amount, and that point is the stored point of
\* the user at that moment.
ChargeReturnsStored ==
  [][ \A t \in Tasks : Returns(t, TransactionTypeCHARGE) =>
        /\ ret'[t].id = req[t].userId
        /\ ret'[t].point = point[t] + req[t].amount
        /\ SelectById(table', req[t].userId) = ret'[t].point ]_vars

\* C15: a chargePoint reads 0 for a user without a record and otherwise the
\* stored point; when it returns, it returns id = userId and point = the
\* point it read + amount; if no hold-timeout has fired, that point is the
\* stored point of the user at that moment, and a getUserPoint that completes
\* next returns it.
ChargeStep ==
  \A t \in Tasks :
    /\ (req[t].type = TransactionTypeCHARGE /\ pc[t] = "selecting"
          /\ pc'[t] = "updating") =>
         /\ point'[t] = IF req[t].userId \in DOMAIN table
                        THEN table[req[t].userId] ELSE 0
         /\ newPoint'[t] = point'[t] + req[t].amount
    /\ Returns(t, TransactionTypeCHARGE) =>
         /\ req[t].amount > 0
         /\ ret'[t].id = req[t].userId
         /\ ret'[t].point = point[t] + req[t].amount
         /\ NoHoldTimeout => SelectById(table', req[t].userId) = ret'[t].point

ChargeResult == []UserPointReplyFresh /\ [][ChargeStep]_vars

\* a second charge of a user has returned the accumulated point, no
\* hold-timeout has fired, and the getUserPoint that completed next has
\* returned that point
ChargeResultWitness ==
  \E t \in Tasks :
    /\ Succeeded(t) /\ req[t].type = TransactionTypeCHARGE
    /\ point[t] = 1 /\ ret[t].point = 2
    /\ NoHoldTimeout
    /\ reply.op = "getUserPoint" /\ reply.userId = req[t].userId
    /\ reply.value = ret[t].point

\* ---- C16 -----------------------------------------------------------------
\* C16 as stated: a usePoint that returns, returns id = userId and
\* point = the point it read - amount, and that point is the stored point of
\* the user at that moment.
UseReturnsStored ==
  [][ \A t \in Tasks : Returns(t, TransactionTypeUSE) =>
        /\ ret'[t].id = req[t].userId
        /\ ret'[t].point = point[t] - req[t].amount
        /\ SelectById(table', req[t].userId) = ret'[t].point ]_vars

\* C16: a usePoint whose amount is at most the stored point it reads (the
\* whole balance included) is not rejected and goes on to write the point
\* read - amount; when it returns, it returns id = userId and that point; if
\* no hold-timeout has fired, that point is the stored point of the user at
\* that moment, and a getUserPoint that completes next returns it.
UseStep ==
  \A t \in Tasks :
    /\ (req[t].type = TransactionTypeUSE /\ pc[t] = "selecting"
          /\ pc'[t] # "selecting"
          /\ req[t].amount <= SelectById(table, req[t].userId)) =>
         /\ pc'[t] = "updating" /\ outcome'[t] = "none"
         /\ point'[t] = SelectById(table, req[t].userId)
         /\ newPoint'[t] = point'[t] - req[t].amount
    /\ Returns(t, TransactionTypeUSE) =>
         /\ req[t].amount > 0 /\ req[t].amount <= point[t]
         /\ ret'[t].id = req[t].userId
         /\ ret'[t].point = point[t] - req[t].amount
         /\ NoHoldTimeout => SelectById(table', req[t].userId) = ret'[t].point

UseResult == []UserPointReplyFresh /\ [][UseStep]_vars

\* a use of the whole balance has returned point 0, no hold-timeout has
\* fired, and the getUserPoint that completed next has returned 0
UseResultWitness ==
  \E t \in Tasks :
    /\ Succeeded(t) /\ req[t].type = TransactionTypeUSE
    /\ point[t] = req[t].amount /\ ret[t].point = 0
    /\ NoHoldTimeout
    /\ reply.op = "getUserPoint" /\ reply.userId = req[t].userId
    /\ reply.value = 0

\* ---- C17 -----------------------------------------------------------------
\* C17: the step in which a chargePoint (usePoint) returns appends exactly
\* one entry to the history, with the userId and the amount of the call,
\* type CHARGE (USE) and timeMillis equal to the updateMillis of the UserPoint
\* returned, and leaves the other entries as they were; the history changes
\* in no other step.
ReturnsNow(t) == outcome[t] # "ok" /\ outcome'[t] = "ok"

HistoryEntryStep ==
  /\ \A t \in Tasks : ReturnsNow(t) =>
       /\ Len(history') = Len(history) + 1
       /\ SubSeq(history', 1, Len(history)) = history
       /\ LET e == history'[Len(history')] IN
            /\ e.userId = req[t].userId
            /\ e.amount = req[t].amount
            /\ e.type = req[t].type
            /\ e.type = IF Returns(t, TransactionTypeCHARGE)
                        THEN TransactionTypeCHARGE ELSE TransactionTypeUSE
            /\ e.timeMillis = ret'[t].updateMillis
  /\ history' # history => \E t \in Tasks : ReturnsNow(t)

HistoryEntryPerSuccess == [][HistoryEntryStep]_vars

\* a charge and a use have both returned, the use at a time later than the
\* updateMillis it returned
HistoryEntryPerSuccessWitness ==
  \E t, s \in Tasks :
    /\ Succeeded(t) /\ req[t].type = TransactionTypeCHARGE
    /\ Succeeded(s) /\ req[s].type = TransactionTypeUSE
    /\ Len(history) = 2
    /\ history[2].type = TransactionTypeUSE
    /\ history[2].timeMillis = ret[s].updateMillis
    /\ now > ret[s].updateMillis

\* ---- C18 -----------------------------------------------------------------
\* C18: while no hold-timeout has fired, every step that writes a stored
\* balance is the write of exactly one accepted call and is a transition of
\* the machine "balance N; CHARGE(a): N + a; USE(a), enabled when N >= a:
\* N - a" taken on the balance stored at that moment: the balance of the
\* call's user changes by + amount or - amount, the other balances stay,
\* the balances change in no other step, and a call that has written does
\* not write again.
Writes(t) == pc[t] = "updating" /\ pc'[t] = "inserting"

AtomicStep ==
  NoHoldTimeout =>
    /\ \A t \in Tasks : Writes(t) =>
         LET u == req[t].userId
             N == SelectById(table, u) IN
         /\ req[t].amount > 0
         /\ IF req[t].type = TransactionTypeCHARGE
            THEN SelectById(table', u) = N + req[t].amount
            ELSE N >= req[t].amount /\ SelectById(table', u) = N - req[t].amount
         /\ \A v \in Users \ {u} : SelectById(table', v) = SelectById(table, v)
         /\ \A s \in Tasks \ {t} : ~Writes(s)
    /\ table' # table => \E t \in Tasks : Writes(t)
    /\ \A t \in Tasks : pc[t] \in {"inserting", "done"} => pc'[t] # "updating"

AtomicTransitions == [][AtomicStep]_vars

\* no hold-timeout has fired and one user has charged twice and used once
AtomicTransitionsWitness ==
  /\ NoHoldTimeout /\ Quiescent
  /\ \E u \in Users :
       /\ OkCount(u) = 3 /\ Net(u) = 1 /\ SelectById(table, u) = 1
       /\ history[3].type = TransactionTypeUSE

\* ---- C19 -----------------------------------------------------------------
\* C19: getUserPoint and getPointHistories of a user can complete whenever
\* a store call can complete, also while the key of that user is held by a
\* call in its operation; the step in which one of them completes changes
\* neither the lock table, the timers, the lockPromises and their waiters,
\* nor the stored balances, the history or the position of any call.
QueryCompletes == reply'.op # "none"

QueryFrameStep ==
  QueryCompletes =>
    UNCHANGED <<locks, timeouts, armed, deadline, resolved, waitq, mq,
                table, history, pc, outcome, ret, waited, started>>

QueryEnabledState ==
  \A u \in Users :
    (mq = <<>> /\ now <= IoMax) =>
      (ENABLED GetUserPoint(u) /\ ENABLED GetPointHistories(u))

QueriesBypassLock == []QueryEnabledState /\ [][QueryFrameStep]_vars

\* getPointHistories has just returned the entries of a user whose key is
\* held by a call that has written the balance and not yet the history
QueriesBypassLockWitness ==
  /\ HistoriesReply /\ Len(reply.value) > 0
  /\ \E h \in Tasks :
       /\ locks[LockKey(reply.userId)] = h /\ req[h].userId = reply.userId
       /\ pc[h] = "inserting" /\ armed[h]

\* ---- C20 -----------------------------------------------------------------
\* C20: in every reachable state the stored balance of every user is a
\* natural number, and so is every point a call is about to write.
NonNegativeBalance ==
  /\ \A u \in Users : SelectById(table, u) \in Nat
  /\ DOMAIN table \subseteq Users
  /\ \A t \in Tasks : pc[t] = "updating" => newPoint[t] \in Nat

\* a hold-timeout has fired and two uses of the same user, both in their
\* operations at the same time on a balance of 1, have both succeeded
NonNegativeBalanceWitness ==
  \E t, s \in Tasks :
    /\ t # s /\ req[t].userId = req[s].userId
    /\ req[t].type = TransactionTypeUSE /\ req[s].type = TransactionTypeUSE
    /\ Succeeded(t) /\ Succeeded(s)
    /\ holdFired[t]
    /\ Net(req[t].userId) < 0
    /\ SelectById(table, req[t].userId) = 0

\* ---- C21 -----------------------------------------------------------------
\* C21: the stored balance of a user changes only in a step in which a call
\* of that user writes, and the history entries of a user change only in a
\* step in which a call of that user returns: a charge or use of user u
\* leaves the balance and the entries of every other user as they were.
\* What getPointHistories(u) has just returned holds only entries of u.
IsolationStep ==
  \A v \in Users :
    /\ (SelectById(table', v) # SelectById(table, v)
          \/ (v \in DOMAIN table') # (v \in DOMAIN table)) =>
         \E t \in Tasks : req[t].userId = v /\ Writes(t)
    /\ HistoriesOf(history', v) # HistoriesOf(history, v) =>
         \E t \in Tasks : req[t].userId = v /\ ReturnsNow(t)

IsolationState ==
  HistoriesReply =>
    \A i \in 1..Len(reply.value) : reply.value[i].userId = reply.userId

UserIsolation == []IsolationState /\ [][IsolationStep]_vars

\* both users have a balance and entries, and getPointHistories has just
\* returned the entries of user 2, fewer than the store holds
UserIsolationWitness ==
  /\ HistoriesReply /\ reply.userId = 2
  /\ Len(reply.value) > 0 /\ Len(reply.value) < Len(history)
  /\ SelectById(table, 1) > 0 /\ SelectById(table, 2) > 0

\* ---- C22 -----------------------------------------------------------------
\* C22: while no hold-timeout has fired, no call has started its operation
\* while a call made earlier for the same key is still waiting (calls are
\* numbered in the order in which they are made).
FifoOrder ==
  NoHoldTimeout =>
    \A t, s \in Tasks :
      (t < s /\ pc[t] = "waiting" /\ KeyOf(s) = KeyOf(t)) => ~started[s]

\* three calls for one key, the second and the third have both waited for
\* the first, and all three have started their operations; no timeout fired
FifoOrderWitness ==
  /\ NoHoldTimeout
  /\ \A t \in Tasks : started[t] /\ KeyOf(t) = KeyOf(1) /\ outcome[t] # "LockTimeout"
  /\ waited[2] /\ waited[3]
  /\ pc[1] = "done" /\ pc[2] = "done" /\ InOperation(3)

\* ---- C23 -----------------------------------------------------------------
\* C23: whenever the lock table has an entry for a key, the call that
\* created the entry has invoked its operation for that key and has not yet
\* handed a result or an error to its caller; whenever every call made for a
\* key has finished, the key has no entry, and a call made for a key without
\* entry starts its operation in the same step.
InProgress(t) == pc[t] \notin {"idle", "done"}

NoStaleEntryState ==
  /\ \A k \in Keys : locks[k] # NoTask =>
       /\ KeyOf(locks[k]) = k
       /\ started[locks[k]]
       /\ InOperation(locks[k]) \/ pc[locks[k]] = "settled"
  /\ \A k \in Keys :
       (\A t \in Tasks : KeyOf(t) = k => ~InProgress(t)) => locks[k] = NoTask

NoStaleEntryStep ==
  \A t \in Tasks :
    (pc[t] = "idle" /\ pc'[t] # "idle"
      /\ \A s \in Tasks : req[s].userId = req'[t].userId => ~InProgress(s)) =>
      (started'[t] /\ locks'[LockKey(req'[t].userId)] = t)

NoStaleEntries == []NoStaleEntryState /\ [][NoStaleEntryStep]_vars

\* after a hold-timeout and the late release of that call, the third call
\* for the key holds the entry while the first two have finished
NoStaleEntriesWitness ==
  \E a, b, c \in Tasks :
    /\ KeyOf(a) = KeyOf(c) /\ KeyOf(b) = KeyOf(c) /\ a # b
    /\ holdFired[a] /\ pc[a] = "done" /\ pc[b] = "done" /\ started[b]
    /\ locks[KeyOf(c)] = c /\ InOperation(c)

\* ---- C24 -----------------------------------------------------------------
\* C24: a call with amount <= 0 made while the key of its user has an entry
\* does not fail in the step in which it is made: it waits.  A call fails
\* with the invalid-amount error only in the step in which it acquires the
\* key and its operation is invoked, so a call that has failed with that
\* error has held the key, and one that gave up waiting has failed with the
\* lock-timeout error instead.  In the step in which the invalid-amount
\* error reaches the caller the entry of the key is removed.
CheckInsideStep ==
  \A t \in Tasks :
    /\ (pc[t] = "idle" /\ pc'[t] # "idle" /\ req'[t].amount <= 0
          /\ locks[LockKey(req'[t].userId)] # NoTask) =>
         (pc'[t] = "waiting" /\ outcome'[t] = "none" /\ waited'[t])
    /\ (outcome[t] # "InvalidAmount" /\ outcome'[t] = "InvalidAmount") =>
         /\ locks[LockKey(req'[t].userId)] = NoTask
         /\ locks'[LockKey(req'[t].userId)] = t
         /\ ~started[t] /\ started'[t]
    /\ (outcome'[t] = "InvalidAmount" /\ pc[t] # "done" /\ pc'[t] = "done") =>
         locks'[KeyOf(t)] = NoTask

CheckInsideState ==
  \A t \in Tasks :
    /\ outcome[t] = "InvalidAmount" => (started[t] /\ req[t].amount <= 0)
    /\ (pc[t] = "done" /\ req[t].amount <= 0 /\ ~started[t]) =>
         outcome[t] = "LockTimeout"

CheckInsideCriticalSection == []CheckInsideState /\ [][CheckInsideStep]_vars

\* a call with amount <= 0 has waited for the key, has then failed with the
\* invalid-amount error, and the key has no entry
CheckInsideCriticalSectionWitness ==
  \E t \in Tasks :
    /\ req[t].amount <= 0 /\ waited[t]
    /\ pc[t] = "done" /\ outcome[t] = "InvalidAmount"
    /\ locks[KeyOf(t)] = NoTask

\* a call with amount <= 0 has given up waiting with the lock-timeout error
CheckInsideTimeoutWitness ==
  \E t \in Tasks :
    req[t].amount <= 0 /\ outcome[t] = "LockTimeout" /\ ~started[t]

\* ---- C25 -----------------------------------------------------------------
\* C25: a call writes the balance of its user in one step and appends its
\* history entry in a later one: the step that appends the entry of a call
\* is taken after the call's write and writes no balance, the step of the
\* write appends nothing.  In every reachable state the history of a user
\* holds at most as many entries as calls of that user have written the
\* balance, and a user with an entry has a stored record.
WritesMade(u) ==
  Cardinality({t \in Tasks :
    req[t].userId = u /\ (pc[t] = "inserting" \/ outcome[t] = "ok")})

PersistFirstState ==
  \A u \in Users :
    /\ HistoryCount(u) <= WritesMade(u)
    /\ HistoryCount(u) > 0 => u \in DOMAIN table

PersistFirstStep ==
  \A t \in Tasks :
    /\ Writes(t) =>
         /\ table' = InsertOrUpdate(table, req[t].userId, newPoint[t])
         /\ history' = history
    /\ ReturnsNow(t) => (pc[t] = "inserting" /\ table' = table)

PersistBeforeHistory == []PersistFirstState /\ [][PersistFirstStep]_vars

\* getUserPoint has just returned the balance a call has written while the
\* history of the user has no entry yet
PersistBeforeHistoryWitness ==
  /\ reply.op = "getUserPoint" /\ reply.value > 0
  /\ HistoryCount(reply.userId) = 0
  /\ \E t \in Tasks : req[t].userId = reply.userId /\ pc[t] = "inserting"

\* ---- C26 -----------------------------------------------------------------
\* what the entry adds to the ledger of user u
EntryDelta(e, u) ==
  IF e.userId # u THEN 0
  ELSE IF e.type = TransactionTypeCHARGE THEN e.amount ELSE 0 - e.amount

RECURSIVE LedgerUpTo(_, _)
LedgerUpTo(u, n) ==
  IF n = 0 THEN 0 ELSE LedgerUpTo(u, n - 1) + EntryDelta(history[n], u)

\* sum of the CHARGE amounts minus sum of the USE amounts in the history of u
Ledger(u) == LedgerUpTo(u, Len(history))

\* C26: in every reachable state in which no call of user u is in its
\* operation and no hold-timeout of a call of u has fired, the stored
\* balance of u is the sum of the amounts of the CHARGE entries of u minus
\* the sum of the amounts of its USE entries.
LedgerConsistent ==
  \A u \in Users :
    (/\ \A t \in Tasks : req[t].userId = u => ~InOperation(t)
     /\ \A t \in Tasks : req[t].userId = u => ~holdFired[t]) =>
      SelectById(table, u) = Ledger(u)

\* a user has charged and used the whole balance, no call of the user is in
\* flight, none of its hold-timeouts has fired, and a hold-timeout of a
\* call of the other user has fired
LedgerConsistentWitness ==
  \E u \in Users :
    /\ \A t \in Tasks : req[t].userId = u => (~InProgress(t) /\ ~holdFired[t])
    /\ HistoryCount(u) = 2 /\ Ledger(u) = 0 /\ SelectById(table, u) = 0
    /\ \E t \in Tasks : holdFired[t]

\* ---- C27 -----------------------------------------------------------------
\* C27: in every reachable state each key has at most one armed timer; a
\* key has an entry exactly when a timer is armed for it, the armed timer
\* is the one registered under the key and was armed by the call that
\* created the entry; the timer callback that runs removes the entry of
\* the call that armed it.
ArmedFor(k) == {t \in Tasks : armed[t] /\ KeyOf(t) = k}

TimerPairingState ==
  \A k \in Keys :
    /\ Cardinality(ArmedFor(k)) <= 1
    /\ (locks[k] # NoTask) <=> (ArmedFor(k) # {})
    /\ locks[k] # NoTask => (ArmedFor(k) = {locks[k]} /\ timeouts[k] = locks[k])

TimerPairingStep ==
  \A t \in Tasks :
    (~holdFired[t] /\ holdFired'[t]) =>
      (locks[KeyOf(t)] = t /\ locks'[KeyOf(t)] = NoTask)

TimerPairing == []TimerPairingState /\ [][TimerPairingStep]_vars

\* after a hold-timeout and the late release of that call, which removed
\* the entry and the timer of the second call, the third call holds the
\* entry of the key with its own timer armed while the second is still in
\* its operation
TimerPairingWitness ==
  \E a, b, c \in Tasks :
    /\ a # b /\ b # c /\ a # c
    /\ KeyOf(a) = KeyOf(c) /\ KeyOf(b) = KeyOf(c)
    /\ holdFired[a] /\ pc[a] = "done"
    /\ InOperation(b) /\ ~armed[b] /\ ~holdFired[b]
    /\ locks[KeyOf(c)] = c /\ armed[c] /\ timeouts[KeyOf(c)] = c

TypeOK ==
  /\ now \in 0..MaxTime
  /\ \A t \in Tasks : pc[t] \in {"idle", "waiting", "selecting", "updating",
                                 "inserting", "settled", "done"}
====
